---- MODULE Spec2Model ----
(***************************************************************************)
(* Grid pathfinder with six uninformed search strategies (pathfinder.py). *)
(* A GridEnvironment is configured (set_start, set_target, add_wall),     *)
(* run_algorithm builds one strategy object and calls search(); every     *)
(* loop iteration (or recursive call) of a search is one action.          *)
(***************************************************************************)
EXTENDS Integers, Sequences, FiniteSets, TLC

\* ---------------------------------------------------------------- bounds
\* side of the square grid handed to GridEnvironment(size)
N == 5
\* number of add_wall calls explored in one configuration of a static grid
MaxWalls == 3
\* number of add_wall calls explored when the spawner or the quit event is live
DynWalls == 1
\* number of obstacles the spawner may produce on one grid
MaxSpawns == 3
\* grid side used when the spawner is live
DynN == 2
\* grid side used when the quit event is live
CancelN == 3
\* number of search() calls made on one strategy object
MaxCalls == 2

\* ------------------------------------------------------------- constants
\* DLS.__init__ default depth limit
DefaultLimit == 15
\* a small caller-supplied DLS limit
SmallLimit == 2
OrthCost == 10
DiagCost == 14

None == << >>

VARIABLES
  size, start, target, static_walls, dynamic_obstacles,
  algo, limit, current_depth_limit,
  frontier_nodes, explored_nodes, path, nodes_expanded, path_cost, is_running,
  pc, found,
  queue, stack, pq, visited, cost_so_far,
  forward_queue, forward_visited, backward_queue, backward_visited,
  frames, call, depth,
  wall_budget, spawns_left, may_quit, calls_left

gridVars == <<size, start, target, static_walls>>
objVars == <<frontier_nodes, explored_nodes, path, nodes_expanded, path_cost, is_running>>
localVars == <<queue, stack, pq, visited, cost_so_far, forward_queue,
               forward_visited, backward_queue, backward_visited, frames, call, depth>>
vars == <<size, start, target, static_walls, dynamic_obstacles,
          algo, limit, current_depth_limit,
          frontier_nodes, explored_nodes, path, nodes_expanded, path_cost, is_running,
          pc, found,
          queue, stack, pq, visited, cost_so_far,
          forward_queue, forward_visited, backward_queue, backward_visited,
          frames, call, depth, wall_budget, spawns_left, may_quit,
          calls_left>>

Algorithms == {"BFS", "DFS", "UCS", "DLS", "IDDFS", "Bidirectional"}

\* --------------------------------------------------------------- helpers
Abs(x) == IF x < 0 THEN -x ELSE x

Reverse(s) == [i \in 1..Len(s) |-> s[Len(s) + 1 - i]]

SeqToSet(s) == {s[i] : i \in 1..Len(s)}

Cells(n) == {<<r, c>> : r \in 0..(n - 1), c \in 0..(n - 1)}

\* Node(row, col, cost) with parent = None
Node(row, col, cost) == [row |-> row, col |-> col, cost |-> cost, parent |-> None]

get_position(node) == <<node.row, node.col>>

\* a neighbour that is queued without a link to the node it came from
WithParent_unlinked(node, p) == node

WithParent(node, p) == [node EXCEPT !.parent = <<p>>]

is_valid_position(row, col, dyn) ==
  IF row < 0 \/ row >= size \/ col < 0 \/ col >= size
  THEN FALSE
  ELSE IF <<row, col>> \in static_walls \/ <<row, col>> \in dyn
       THEN FALSE
       ELSE TRUE

\* the four orthogonal directions only
directions_orthogonal == << <<-1, 0>>, <<0, 1>>, <<1, 0>>, <<0, -1>> >>

directions ==
  << <<-1, 0>>, <<0, 1>>, <<1, 0>>, <<1, 1>>,
     <<0, -1>>, <<-1, -1>>, <<-1, 1>>, <<1, -1>> >>

\* every step at the orthogonal price
step_cost_uniform(dr, dc) == OrthCost

step_cost(dr, dc) == IF dr # 0 /\ dc # 0 THEN DiagCost ELSE OrthCost

get_neighbors(node, dyn) ==
  LET cand == [i \in 1..Len(directions) |->
                 Node(node.row + directions[i][1], node.col + directions[i][2],
                      node.cost + step_cost(directions[i][1], directions[i][2]))]
  IN SelectSeq(cand, LAMBDA n : is_valid_position(n.row, n.col, dyn))

\* list of positions from node up to the root, following parent links
RECURSIVE ParentChain(_)
ParentChain(node) ==
  IF node.parent = None
  THEN <<get_position(node)>>
  ELSE <<get_position(node)>> \o ParentChain(node.parent[1])

reconstruct_path(node) == Reverse(ParentChain(node))

\* ------------------------------------------------------------- spawner
\* a spawner that draws from every cell of the grid
empty_cells_any(dyn) == Cells(size)

empty_cells(dyn) ==
  {p \in Cells(size) : is_valid_position(p[1], p[2], dyn) /\ p # start /\ p # target}

\* the values spawn_dynamic_obstacle can return: None, or any empty cell
\* when random.random() falls under the spawn probability
SpawnOutcomes == {None} \cup (IF spawns_left > 0 THEN empty_cells(dynamic_obstacles) ELSE {})

\* a spawner that reports a cell without recording it in dynamic_obstacles
add_dynamic_obstacle_unrecorded(p, dyn) == dyn

add_dynamic_obstacle(p, dyn) ==
  IF p \notin static_walls /\ p # start /\ p # target THEN dyn \cup {p} ELSE dyn

spawn_dynamic_obstacle(obstacle_pos) ==
  IF obstacle_pos = None
  THEN dynamic_obstacles
  ELSE add_dynamic_obstacle(obstacle_pos, dynamic_obstacles)

handle_dynamic_obstacle(obstacle_pos) ==
  IF obstacle_pos # None
  THEN IF obstacle_pos \in SeqToSet(path) THEN TRUE ELSE FALSE
  ELSE FALSE

\* update_display: a QUIT event, when one is pending, clears is_running
QuitOutcomes == IF may_quit THEN {FALSE, TRUE} ELSE {FALSE}

\* an event loop that clears is_running on every refresh
update_display_stops(quit) == FALSE

update_display(quit) == IF quit THEN FALSE ELSE is_running

\* ------------------------------------------------- local variables of search
EmptyMap == [p \in {} |-> 0]

NoLocals ==
  [queue |-> << >>, stack |-> << >>, pq |-> {}, visited |-> {},
   cost_so_far |-> EmptyMap, forward_queue |-> << >>, forward_visited |-> EmptyMap,
   backward_queue |-> << >>, backward_visited |-> EmptyMap,
   frames |-> << >>, call |-> None, depth |-> 0]

SetLocals(locals) ==
  \E l \in {locals} :
    /\ queue' = l.queue
    /\ stack' = l.stack
    /\ pq' = l.pq
    /\ visited' = l.visited
    /\ cost_so_far' = l.cost_so_far
    /\ forward_queue' = l.forward_queue
    /\ forward_visited' = l.forward_visited
    /\ backward_queue' = l.backward_queue
    /\ backward_visited' = l.backward_visited
    /\ frames' = l.frames
    /\ call' = l.call
    /\ depth' = l.depth

\* search() returns: the locals die, the outcome is recorded
Return(result) ==
  /\ pc' = "done"
  /\ found' = result
  /\ SetLocals(NoLocals)

Unset == start = None \/ target = None

\* --------------------------------------------------------------- Init
InitCommon ==
  /\ start = None
  /\ target = None
  /\ static_walls = {}
  /\ dynamic_obstacles = {}
  /\ algo = "none"
  /\ limit = 0
  /\ current_depth_limit = 0
  /\ frontier_nodes = {}
  /\ explored_nodes = {}
  /\ path = << >>
  /\ nodes_expanded = 0
  /\ path_cost = 0
  /\ is_running = TRUE
  /\ pc = "config"
  /\ found = FALSE
  /\ queue = << >>
  /\ stack = << >>
  /\ pq = {}
  /\ visited = {}
  /\ cost_so_far = EmptyMap
  /\ forward_queue = << >>
  /\ forward_visited = EmptyMap
  /\ backward_queue = << >>
  /\ backward_visited = EmptyMap
  /\ frames = << >>
  /\ call = None
  /\ depth = 0

\* GridEnvironment(size) with a live spawner; the window is never closed
Init ==
  /\ size = DynN
  /\ wall_budget = DynWalls
  /\ spawns_left = MaxSpawns
  /\ may_quit = FALSE
  /\ calls_left = MaxCalls
  /\ InitCommon

\* GridEnvironment(size) on a static grid, with a user who may close the window
InitCancel ==
  /\ size = CancelN
  /\ wall_budget = DynWalls
  /\ spawns_left = 0
  /\ may_quit = TRUE
  /\ calls_left = MaxCalls
  /\ InitCommon

\* GridEnvironment(size) on a static grid: the spawner never fires, nobody quits
InitStatic ==
  /\ size = N
  /\ wall_budget = MaxWalls
  /\ spawns_left = 0
  /\ may_quit = FALSE
  /\ calls_left = MaxCalls
  /\ InitCommon

\* ------------------------------------------------------- configuration
\* set_start and set_target take any pair of integers: a corner of the grid,
\* and a cell just outside it
StartCells == {<<0, 0>>, <<-1, 0>>}
TargetCells == {<<size - 1, size - 1>>, <<size - 1, 0>>}
\* walls are drawn from the 3x2 block in the bottom-left corner of the grid
\* and the cell to the right of its top row
WallCells ==
  {p \in Cells(size) : (p[1] >= size - 3 /\ p[2] <= 1) \/ p = <<size - 3, 2>>}

set_start(row, col) ==
  /\ pc = "config"
  /\ start' = <<row, col>>
  /\ UNCHANGED <<size, target, static_walls, dynamic_obstacles, algo, limit,
                 current_depth_limit, objVars, pc, found, localVars,
                 wall_budget, spawns_left, may_quit, calls_left>>

set_target(row, col) ==
  /\ pc = "config"
  /\ target' = <<row, col>>
  /\ UNCHANGED <<size, start, static_walls, dynamic_obstacles, algo, limit,
                 current_depth_limit, objVars, pc, found, localVars,
                 wall_budget, spawns_left, may_quit, calls_left>>

add_wall(row, col) ==
  /\ pc = "config"
  /\ Cardinality(static_walls) < wall_budget
  /\ static_walls' = IF <<row, col>> # start /\ <<row, col>> # target
                     THEN static_walls \cup {<<row, col>>}
                     ELSE static_walls
  /\ UNCHANGED <<size, start, target, dynamic_obstacles, algo, limit,
                 current_depth_limit, objVars, pc, found, localVars,
                 wall_budget, spawns_left, may_quit, calls_left>>

\* ------------------------------------------------------ entering search()
DLSLimits == {SmallLimit, DefaultLimit}

start_node == Node(start[1], start[2], 0)
target_node == Node(target[1], target[2], 0)

\* the locals each search() sets up before its loop
EnterLocals(a) ==
  CASE a = "BFS" -> [NoLocals EXCEPT !.queue = <<start_node>>, !.visited = {start}]
    [] a = "DFS" -> [NoLocals EXCEPT !.stack = <<start_node>>, !.visited = {start}]
    [] a = "UCS" -> [NoLocals EXCEPT !.pq = {start_node},
                                     !.cost_so_far = [p \in {start} |-> 0]]
    [] a = "DLS" -> [NoLocals EXCEPT !.visited = {start},
                                     !.call = <<[node |-> start_node, depth |-> 0]>>]
    [] a = "IDDFS" -> [NoLocals EXCEPT !.stack = << <<start_node, 0>> >>,
                                       !.visited = {start}]
    [] a = "Bidirectional" ->
         [NoLocals EXCEPT !.forward_queue = <<start_node>>,
                          !.forward_visited = [p \in {start} |-> start_node],
                          !.backward_queue = <<target_node>>,
                          !.backward_visited = [p \in {target} |-> target_node]]

\* search(): the guard on an unset start or target, then the set-up.
\* running is the value of is_running when search() is entered.
search_enter(a, running) ==
  IF Unset \/ (a = "IDDFS" /\ (size * 2 = 0 \/ ~running))
  THEN Return(FALSE)
  ELSE /\ pc' = "running"
       /\ found' = FALSE
       /\ SetLocals(EnterLocals(a))

\* run_algorithm(algorithm_class, environment, **kwargs)
run_algorithm(a, l) ==
  /\ pc = "config"
  /\ algo' = a
  /\ limit' = l
  /\ frontier_nodes' = {}
  /\ explored_nodes' = {}
  /\ path' = << >>
  /\ nodes_expanded' = 0
  /\ path_cost' = 0
  /\ \E quit \in QuitOutcomes :
       /\ is_running' = ~quit
       /\ search_enter(a, ~quit)
       /\ current_depth_limit' =
            IF a = "IDDFS" /\ Unset /\ ~quit /\ size > 0 THEN size * 2 - 1 ELSE 0
  /\ calls_left' = calls_left - 1
  /\ UNCHANGED <<size, start, target, static_walls, dynamic_obstacles,
                 wall_budget, spawns_left, may_quit>>

\* algorithm.search() called once more on the strategy object that
\* run_algorithm built: nothing is reset, the attributes keep what the
\* previous call left in them
search_again ==
  /\ pc = "done"
  /\ calls_left > 0
  /\ calls_left' = calls_left - 1
  /\ search_enter(algo, is_running)
  /\ current_depth_limit' =
       IF algo = "IDDFS" /\ is_running /\ size > 0
       THEN (IF Unset THEN size * 2 - 1 ELSE 0)
       ELSE current_depth_limit
  /\ UNCHANGED <<size, start, target, static_walls, dynamic_obstacles, algo, limit,
                 objVars, wall_budget, spawns_left, may_quit>>

\* ------------------------------------------------------------------ BFS
\* a loop that keeps no neighbour
Unvisited_none(nbrs, seen, current) == << >>

\* every neighbour, visited or not, linked to its parent
Unvisited_unfiltered(nbrs, seen, current) ==
  [i \in 1..Len(nbrs) |-> WithParent(nbrs[i], current)]

\* neighbours not yet visited, in get_neighbors order, linked to their parent
Unvisited(nbrs, seen, current) ==
  LET fresh == SelectSeq(nbrs, LAMBDA n : get_position(n) \notin seen)
  IN [i \in 1..Len(fresh) |-> WithParent(fresh[i], current)]

Positions(nodes) == {get_position(nodes[i]) : i \in 1..Len(nodes)}

Spawned(obstacle_pos) ==
  /\ dynamic_obstacles' = spawn_dynamic_obstacle(obstacle_pos)
  /\ spawns_left' = IF obstacle_pos = None THEN spawns_left ELSE spawns_left - 1

\* queue.popleft(): the item taken and what stays in the deque
popleft_last(q) == [item |-> q[Len(q)], rest |-> SubSeq(q, 1, Len(q) - 1)]

\* a read of the head that leaves it in the deque
popleft_peek(q) == [item |-> Head(q), rest |-> q]

popleft(q) == [item |-> Head(q), rest |-> Tail(q)]

\* a loop condition that does not look at the stop flag
BFS_while_ignoring_stop == queue # << >>

\* while queue and self.is_running
BFS_while == queue # << >> /\ is_running

\* one iteration of the while loop of BFS.search
BFS_search ==
  /\ pc = "running"
  /\ algo = "BFS"
  /\ UNCHANGED <<size, start, target, static_walls, algo, limit,
                 current_depth_limit, wall_budget, may_quit, calls_left>>
  /\ IF ~BFS_while
     THEN /\ Return(FALSE)
          /\ UNCHANGED <<dynamic_obstacles, spawns_left, objVars>>
     ELSE \E obstacle_pos \in SpawnOutcomes, quit \in QuitOutcomes :
            /\ Spawned(obstacle_pos)
            /\ IF handle_dynamic_obstacle(obstacle_pos)
               THEN /\ search_enter("BFS", is_running)
                    /\ UNCHANGED objVars
               ELSE LET current == popleft(queue).item
                        rest == popleft(queue).rest
                        current_pos == get_position(current)
                        fresh == Unvisited(get_neighbors(current, dynamic_obstacles'),
                                           visited, current)
                    IN /\ frontier_nodes' = Positions(rest)
                       /\ explored_nodes' = visited
                       /\ nodes_expanded' = nodes_expanded + 1
                       /\ is_running' = update_display(quit)
                       /\ IF current_pos = target
                          THEN /\ path' = reconstruct_path(current)
                               /\ path_cost' = Len(path') - 1
                               /\ Return(TRUE)
                          ELSE /\ UNCHANGED <<path, path_cost>>
                               /\ pc' = pc
                               /\ found' = found
                               /\ SetLocals([NoLocals EXCEPT
                                    !.queue = rest \o fresh,
                                    !.visited = visited \cup Positions(fresh)])

\* ------------------------------------------------------------------ DFS
\* one iteration of the while loop of DFS.search
DFS_search ==
  /\ pc = "running"
  /\ algo = "DFS"
  /\ UNCHANGED <<size, start, target, static_walls, algo, limit,
                 current_depth_limit, wall_budget, may_quit, calls_left>>
  /\ IF ~(stack # << >> /\ is_running)
     THEN /\ Return(FALSE)
          /\ UNCHANGED <<dynamic_obstacles, spawns_left, objVars>>
     ELSE \E obstacle_pos \in SpawnOutcomes, quit \in QuitOutcomes :
            /\ Spawned(obstacle_pos)
            /\ IF handle_dynamic_obstacle(obstacle_pos)
               THEN /\ search_enter("DFS", is_running)
                    /\ UNCHANGED objVars
               ELSE LET current == stack[Len(stack)]
                        rest == SubSeq(stack, 1, Len(stack) - 1)
                        current_pos == get_position(current)
                        fresh == Unvisited(get_neighbors(current, dynamic_obstacles'),
                                           visited, current)
                    IN /\ frontier_nodes' = Positions(rest)
                       /\ explored_nodes' = visited
                       /\ nodes_expanded' = nodes_expanded + 1
                       /\ is_running' = update_display(quit)
                       /\ IF current_pos = target
                          THEN /\ path' = reconstruct_path(current)
                               /\ path_cost' = Len(path') - 1
                               /\ Return(TRUE)
                          ELSE /\ UNCHANGED <<path, path_cost>>
                               /\ pc' = pc
                               /\ found' = found
                               /\ SetLocals([NoLocals EXCEPT
                                    !.stack = rest \o Reverse(fresh),
                                    !.visited = visited \cup Positions(fresh)])

\* ------------------------------------------------------------------ UCS
\* a queue that hands out its entries in no particular order
PopChoices_any(entries) == entries

\* a queue that hands out its most expensive entry
PopChoices_max(entries) == {n \in entries : \A m \in entries : n.cost >= m.cost}

\* pq.get(): the entry (cost, id(node), node) that sorts first.  Entries of
\* equal cost are ordered by id(node), an object address, so any of them
\* may come out first.
PopChoices(entries) == {n \in entries : \A m \in entries : n.cost <= m.cost}

edge_cost(neighbor, current) ==
  IF Abs(neighbor.row - current.row) + Abs(neighbor.col - current.col) = 2
  THEN DiagCost
  ELSE OrthCost

\* the neighbours UCS pushes: not visited, and unknown or reached more cheaply
Relaxed(nbrs, seen, costs, current) ==
  LET priced == [i \in 1..Len(nbrs) |->
                   [nbrs[i] EXCEPT !.cost = current.cost + edge_cost(nbrs[i], current)]]
      better == SelectSeq(priced, LAMBDA n :
                   /\ get_position(n) \notin seen
                   /\ (get_position(n) \notin DOMAIN costs
                         \/ n.cost < costs[get_position(n)]))
  IN [i \in 1..Len(better) |-> WithParent(better[i], current)]

NodeAt(nodes, p) == nodes[CHOOSE i \in 1..Len(nodes) : get_position(nodes[i]) = p]

\* one iteration of the while loop of UCS.search
UCS_search ==
  /\ pc = "running"
  /\ algo = "UCS"
  /\ UNCHANGED <<size, start, target, static_walls, algo, limit,
                 current_depth_limit, wall_budget, may_quit, calls_left>>
  /\ IF ~(pq # {} /\ is_running)
     THEN /\ Return(FALSE)
          /\ UNCHANGED <<dynamic_obstacles, spawns_left, objVars>>
     ELSE \E obstacle_pos \in SpawnOutcomes, quit \in QuitOutcomes :
            /\ Spawned(obstacle_pos)
            /\ IF handle_dynamic_obstacle(obstacle_pos)
               THEN /\ search_enter("UCS", is_running)
                    /\ UNCHANGED objVars
               ELSE \E current \in PopChoices(pq) :
                    \E pushed \in {Relaxed(get_neighbors(current, dynamic_obstacles'),
                                           visited \cup {get_position(current)},
                                           cost_so_far, current)} :
                      LET current_pos == get_position(current)
                          rest == pq \ {current}
                          seen == visited \cup {current_pos}
                      IN IF current_pos \in visited
                         THEN /\ UNCHANGED objVars
                              /\ pc' = pc
                              /\ found' = found
                              /\ SetLocals([NoLocals EXCEPT !.pq = rest,
                                    !.visited = visited, !.cost_so_far = cost_so_far])
                         ELSE /\ UNCHANGED frontier_nodes
                              /\ explored_nodes' = seen
                              /\ nodes_expanded' = nodes_expanded + 1
                              /\ is_running' = update_display(quit)
                              /\ IF current_pos = target
                                 THEN /\ path' = reconstruct_path(current)
                                      /\ path_cost' = current.cost
                                      /\ Return(TRUE)
                                 ELSE /\ UNCHANGED <<path, path_cost>>
                                      /\ pc' = pc
                                      /\ found' = found
                                      /\ SetLocals([NoLocals EXCEPT
                                           !.pq = rest \cup SeqToSet(pushed),
                                           !.visited = seen,
                                           !.cost_so_far =
                                             [q \in DOMAIN cost_so_far \cup Positions(pushed) |->
                                                IF q \in Positions(pushed)
                                                THEN NodeAt(pushed, q).cost
                                                ELSE cost_so_far[q]]])

\* ------------------------------------------------------------------ DLS
\* the for loop of dls_recursive, resumed in the innermost active call:
\* the next unvisited neighbour is marked and becomes the next call; a call
\* whose loop is over returns None to its caller, whose loop goes on.  So the
\* next call comes from the innermost active call that still has an
\* unvisited neighbour, and is made on the first such neighbour.
dls_recursive_loop(frs, seen) ==
  LET live == {i \in 1..Len(frs) :
                 \E k \in 1..Len(frs[i].nbrs) : get_position(frs[i].nbrs[k]) \notin seen}
  IN IF live = {}
     THEN [frames |-> << >>, visited |-> seen, call |-> None]
     ELSE LET i == CHOOSE m \in live : \A n \in live : n <= m
              nbrs == frs[i].nbrs
              k == CHOOSE j \in 1..Len(nbrs) :
                     /\ get_position(nbrs[j]) \notin seen
                     /\ \A h \in 1..(j - 1) : get_position(nbrs[h]) \in seen
              neighbor == nbrs[k]
          IN [frames |-> [j \in 1..i |->
                            IF j = i
                            THEN [frs[i] EXCEPT !.nbrs = SubSeq(nbrs, k + 1, Len(nbrs))]
                            ELSE frs[j]],
              visited |-> seen \cup {get_position(neighbor)},
              call |-> <<[node |-> WithParent(neighbor, frs[i].node),
                          depth |-> frs[i].depth + 1]>>]

\* the call returned None: go on in the callers, or end DLS.search with False
DLS_continue(frs, seen) ==
  \E nx \in {dls_recursive_loop(frs, seen)} :
     IF nx.call = None
     THEN Return(FALSE)
     ELSE /\ pc' = pc
          /\ found' = found
          /\ SetLocals([NoLocals EXCEPT !.frames = nx.frames,
                          !.visited = nx.visited, !.call = nx.call])

\* a depth test that never stops the recursion
at_depth_limit_never(d) == FALSE

\* if depth >= self.limit: return None
at_depth_limit(d) == d >= limit

\* one call of dls_recursive(node, target_pos, depth, visited)
DLS_search ==
  /\ pc = "running"
  /\ algo = "DLS"
  /\ UNCHANGED <<size, start, target, static_walls, algo, limit,
                 current_depth_limit, wall_budget, may_quit, calls_left>>
  /\ IF ~is_running
     THEN /\ Return(FALSE)
          /\ UNCHANGED <<dynamic_obstacles, spawns_left, objVars>>
     ELSE \E obstacle_pos \in SpawnOutcomes, quit \in QuitOutcomes :
            /\ Spawned(obstacle_pos)
            /\ IF handle_dynamic_obstacle(obstacle_pos)
               THEN /\ DLS_continue(frames, visited)
                    /\ UNCHANGED objVars
               ELSE LET node == call[1].node
                        node_pos == get_position(node)
                    IN /\ UNCHANGED frontier_nodes
                       /\ explored_nodes' = visited
                       /\ nodes_expanded' = nodes_expanded + 1
                       /\ is_running' = update_display(quit)
                       /\ IF node_pos = target
                          THEN /\ path' = reconstruct_path(node)
                               /\ path_cost' = Len(path') - 1
                               /\ Return(TRUE)
                          ELSE /\ UNCHANGED <<path, path_cost>>
                               /\ IF at_depth_limit(call[1].depth)
                                  THEN DLS_continue(frames, visited)
                                  ELSE \E frs \in {Append(frames,
                                           [node |-> node, depth |-> call[1].depth,
                                            nbrs |-> get_neighbors(node, dynamic_obstacles')])} :
                                         DLS_continue(frs, visited)

\* ---------------------------------------------------------------- IDDFS
max_depth == size * 2

\* dls_iterative returned None: the for loop of IDDFS.search moves on to the
\* next depth limit, or search returns False
IDDFS_next_depth(running) ==
  IF depth + 1 < max_depth /\ running
  THEN /\ current_depth_limit' = depth + 1
       /\ pc' = pc
       /\ found' = found
       /\ SetLocals([EnterLocals("IDDFS") EXCEPT !.depth = depth + 1])
  ELSE /\ UNCHANGED current_depth_limit
       /\ Return(FALSE)

\* one iteration of the while loop of IDDFS.dls_iterative(limit), limit = depth
IDDFS_search ==
  /\ pc = "running"
  /\ algo = "IDDFS"
  /\ UNCHANGED <<size, start, target, static_walls, algo, limit, wall_budget, may_quit, calls_left>>
  /\ IF ~(stack # << >> /\ is_running)
     THEN /\ IDDFS_next_depth(is_running)
          /\ UNCHANGED <<dynamic_obstacles, spawns_left, objVars>>
     ELSE \E obstacle_pos \in SpawnOutcomes, quit \in QuitOutcomes :
            /\ Spawned(obstacle_pos)
            /\ IF handle_dynamic_obstacle(obstacle_pos)
               THEN /\ IDDFS_next_depth(is_running)
                    /\ UNCHANGED objVars
               ELSE LET current == stack[Len(stack)][1]
                        d == stack[Len(stack)][2]
                        rest == SubSeq(stack, 1, Len(stack) - 1)
                        current_pos == get_position(current)
                        fresh == IF d < depth
                                 THEN Unvisited(get_neighbors(current, dynamic_obstacles'),
                                                visited, current)
                                 ELSE << >>
                        pushed == Reverse(fresh)
                    IN /\ frontier_nodes' = {get_position(rest[i][1]) : i \in 1..Len(rest)}
                       /\ explored_nodes' = visited
                       /\ nodes_expanded' = nodes_expanded + 1
                       /\ is_running' = update_display(quit)
                       /\ UNCHANGED current_depth_limit
                       /\ IF current_pos = target
                          THEN /\ path' = reconstruct_path(current)
                               /\ path_cost' = Len(path') - 1
                               /\ Return(TRUE)
                          ELSE /\ UNCHANGED <<path, path_cost>>
                               /\ pc' = pc
                               /\ found' = found
                               /\ SetLocals([NoLocals EXCEPT
                                    !.stack = rest \o [i \in 1..Len(pushed) |->
                                                         <<pushed[i], d + 1>>],
                                    !.visited = visited \cup Positions(fresh),
                                    !.depth = depth])

\* -------------------------------------------------------- Bidirectional
\* backward_path[-2::-1]
DropLastReversed(s) == [i \in 1..(Len(s) - 1) |-> s[Len(s) - i]]

MapPut(m, nodes) ==
  [q \in DOMAIN m \cup Positions(nodes) |->
     IF q \in DOMAIN m THEN m[q] ELSE NodeAt(nodes, q)]

\* one iteration of the while loop of BidirectionalSearch.search
Bidirectional_search ==
  /\ pc = "running"
  /\ algo = "Bidirectional"
  /\ UNCHANGED <<size, start, target, static_walls, algo, limit,
                 current_depth_limit, wall_budget, may_quit, calls_left>>
  /\ IF ~((forward_queue # << >> \/ backward_queue # << >>) /\ is_running)
     THEN /\ Return(FALSE)
          /\ UNCHANGED <<dynamic_obstacles, spawns_left, objVars>>
     ELSE \E obstacle_pos \in SpawnOutcomes, quit \in QuitOutcomes :
            /\ Spawned(obstacle_pos)
            /\ IF handle_dynamic_obstacle(obstacle_pos)
               THEN /\ search_enter("Bidirectional", is_running)
                    /\ UNCHANGED objVars
               ELSE LET dyn == dynamic_obstacles'
                        \* forward step
                        fstep == forward_queue # << >>
                        current_forward == Head(forward_queue)
                        fpos == get_position(current_forward)
                        fmeet == fstep /\ fpos \in DOMAIN backward_visited
                        ffresh == IF fstep /\ ~fmeet
                                  THEN Unvisited(get_neighbors(current_forward, dyn),
                                                 DOMAIN forward_visited, current_forward)
                                  ELSE << >>
                        fq == IF fstep THEN Tail(forward_queue) \o ffresh ELSE forward_queue
                        fv == MapPut(forward_visited, ffresh)
                        \* backward step
                        bstep == backward_queue # << >>
                        current_backward == Head(backward_queue)
                        bpos == get_position(current_backward)
                        bmeet == bstep /\ bpos \in DOMAIN fv
                        bfresh == IF bstep /\ ~bmeet
                                  THEN Unvisited(get_neighbors(current_backward, dyn),
                                                 DOMAIN backward_visited, current_backward)
                                  ELSE << >>
                        bq == IF bstep THEN Tail(backward_queue) \o bfresh ELSE backward_queue
                        bv == MapPut(backward_visited, bfresh)
                    IN IF fmeet
                       THEN /\ path' = reconstruct_path(current_forward)
                                         \o DropLastReversed(
                                              reconstruct_path(backward_visited[fpos]))
                            /\ path_cost' = Len(path') - 1
                            /\ UNCHANGED <<frontier_nodes, explored_nodes,
                                           nodes_expanded, is_running>>
                            /\ Return(TRUE)
                       ELSE IF bmeet
                       THEN /\ path' = reconstruct_path(fv[bpos])
                                         \o DropLastReversed(
                                              reconstruct_path(current_backward))
                            /\ path_cost' = Len(path') - 1
                            /\ UNCHANGED <<frontier_nodes, explored_nodes,
                                           nodes_expanded, is_running>>
                            /\ Return(TRUE)
                       ELSE /\ frontier_nodes' = Positions(fq) \cup Positions(bq)
                            /\ explored_nodes' = DOMAIN fv \cup DOMAIN bv
                            /\ nodes_expanded' = nodes_expanded + 1
                            /\ is_running' = update_display(quit)
                            /\ UNCHANGED <<path, path_cost>>
                            /\ pc' = pc
                            /\ found' = found
                            /\ SetLocals([NoLocals EXCEPT
                                 !.forward_queue = fq, !.forward_visited = fv,
                                 !.backward_queue = bq, !.backward_visited = bv])

\* ------------------------------------------------------- specification
Next ==
  \/ \E p \in StartCells : set_start(p[1], p[2])
  \/ \E p \in TargetCells : set_target(p[1], p[2])
  \/ \E p \in WallCells : add_wall(p[1], p[2])
  \/ \E a \in Algorithms :
       \E l \in (IF a = "DLS" THEN DLSLimits ELSE {0}) : run_algorithm(a, l)
  \/ search_again
  \/ BFS_search
  \/ DFS_search
  \/ UCS_search
  \/ DLS_search
  \/ IDDFS_search
  \/ Bidirectional_search

\* live spawner
Spec == Init /\ [][Next]_vars

\* live quit event
SpecCancel == InitCancel /\ [][Next]_vars

\* the program as main() drives it: run_algorithm builds a strategy object
\* and calls its search() once
NextSingleCall ==
  \/ \E p \in StartCells : set_start(p[1], p[2])
  \/ \E p \in TargetCells : set_target(p[1], p[2])
  \/ \E p \in WallCells : add_wall(p[1], p[2])
  \/ \E a \in Algorithms :
       \E l \in (IF a = "DLS" THEN DLSLimits ELSE {0}) : run_algorithm(a, l)
  \/ BFS_search
  \/ DFS_search
  \/ UCS_search
  \/ DLS_search
  \/ IDDFS_search
  \/ Bidirectional_search

\* static grid, no cancellation, one search() call per strategy object
SpecStatic == InitStatic /\ [][NextSingleCall]_vars

\* search() runs to completion once called: its loop never blocks
Search ==
  \/ BFS_search
  \/ DFS_search
  \/ UCS_search
  \/ DLS_search
  \/ IDDFS_search
  \/ Bidirectional_search

\* ------------------------------------------------- reference definitions
\* the 8-neighbour grid graph over the cells that are in bounds and not blocked
Free == Cells(size) \ (static_walls \cup dynamic_obstacles)

KingMove(p, q) ==
  /\ p # q
  /\ Abs(p[1] - q[1]) <= 1
  /\ Abs(p[2] - q[2]) <= 1

WellFormed ==
  /\ start # None
  /\ target # None
  /\ start \in Cells(size) \ static_walls
  /\ target \in Cells(size) \ static_walls

\* breadth-first layers from the start: the number of steps to goal, or -1
RECURSIVE StepsFrom(_, _, _, _)
StepsFrom(layer, seen, d, goal) ==
  IF goal \in layer
  THEN d
  ELSE IF layer = {}
       THEN -1
       ELSE LET nxt == {q \in Free \ seen : \E p \in layer : KingMove(p, q)}
            IN StepsFrom(nxt, seen \cup nxt, d + 1, goal)

ShortestSteps == StepsFrom({start}, {start}, 0, target)

Reachable == WellFormed /\ ShortestSteps >= 0

MoveCost(p, q) == IF p[1] # q[1] /\ p[2] # q[2] THEN DiagCost ELSE OrthCost

RECURSIVE SumCost(_)
SumCost(cells) ==
  IF Len(cells) <= 1
  THEN 0
  ELSE MoveCost(cells[1], cells[2]) + SumCost(Tail(cells))

Infinity == 1000000

\* Bellman-Ford relaxation to a fixed point over the free cells
RECURSIVE CheapestFrom(_)
CheapestFrom(dist) ==
  LET better == [q \in DOMAIN dist |->
                   LET via == {dist[p] + MoveCost(p, q) :
                                 p \in {r \in DOMAIN dist : KingMove(r, q) /\ dist[r] < Infinity}}
                       cand == via \cup {dist[q]}
                   IN CHOOSE m \in cand : \A k \in cand : m <= k]
  IN IF better = dist THEN dist ELSE CheapestFrom(better)

MinCost ==
  CheapestFrom([q \in Free \cup {start} |-> IF q = start THEN 0 ELSE Infinity])[target]

ValidPath(cells) ==
  /\ Len(cells) >= 1
  /\ cells[1] = start
  /\ cells[Len(cells)] = target
  /\ \A i \in 1..(Len(cells) - 1) : KingMove(cells[i], cells[i + 1])
  /\ \A i \in 1..Len(cells) : cells[i] \in Cells(size) /\ cells[i] \notin static_walls
  /\ \A i, j \in 1..Len(cells) : i # j => cells[i] # cells[j]

\* ---------------------------------------------------------------- claims

\* C1: on a static grid, whenever any of the six strategies returns
\* found = true, the returned path starts at start, ends at target, moves one
\* king move at a time, stays in bounds and off the walls, and repeats no cell.
C1_PathValid ==
  (pc = "done" /\ found) => ValidPath(path)

\* C2: whatever the spawner does, a path returned with found = true holds
\* no cell that is a dynamic obstacle at the moment of return.
C2_NoObstacleOnPath ==
  (pc = "done" /\ found) => (SeqToSet(path) \cap dynamic_obstacles = {})

\* the empty 5x5 grid from (0,0) to (4,4)
ScenarioA ==
  /\ size = 5
  /\ start = <<0, 0>>
  /\ target = <<4, 4>>
  /\ static_walls = {}
  /\ dynamic_obstacles = {}

Diagonal == [i \in 1..5 |-> <<i - 1, i - 1>>]

\* C3: on a static grid whose target is reachable, BFS returns found = true
\* with a path whose step count, also reported as path_cost, is the shortest
\* step distance of the 8-neighbour grid graph; on the empty 5x5 grid from
\* (0,0) to (4,4) the path is the 4-step diagonal.
C3_BFSShortest ==
  (pc = "done" /\ algo = "BFS" /\ Reachable) =>
     /\ found
     /\ Len(path) - 1 = ShortestSteps
     /\ path_cost = ShortestSteps
     /\ (ScenarioA => path = Diagonal)

\* BFS returned a path that walls force to be longer than the straight line
C3_Witness ==
  /\ pc = "done"
  /\ algo = "BFS"
  /\ Reachable
  /\ found
  /\ static_walls # {}
  /\ Len(path) - 1 > size - 1

\* C4: on a static grid, whenever IDDFS returns found = true the step count
\* of its path is the shortest step distance from start to target.
C4_IDDFSShortest ==
  (pc = "done" /\ algo = "IDDFS" /\ found /\ WellFormed) =>
     Len(path) - 1 = ShortestSteps

\* C5: on a static grid, whenever Bidirectional search returns found = true
\* the step count of its path is the shortest step distance from start to
\* target.
C5_BidirectionalShortest ==
  (pc = "done" /\ algo = "Bidirectional" /\ found /\ WellFormed) =>
     Len(path) - 1 = ShortestSteps

\* C6: on a static grid whose target is reachable, UCS returns found = true
\* and both path_cost and the summed 10/14 edge cost of the path equal the
\* minimum weighted cost; on the empty 5x5 grid from (0,0) to (4,4) it is 56.
C6_UCSCheapest ==
  (pc = "done" /\ algo = "UCS" /\ Reachable) =>
     /\ found
     /\ path_cost = MinCost
     /\ SumCost(path) = MinCost
     /\ (ScenarioA => path_cost = 56)

\* UCS returned a path around walls that mixes orthogonal and diagonal steps
C6_Witness ==
  /\ pc = "done"
  /\ algo = "UCS"
  /\ Reachable
  /\ found
  /\ static_walls # {}
  /\ path_cost % OrthCost # 0
  /\ path_cost % DiagCost # 0

\* the locals are those search() sets up before its first iteration
AtStartOfAttempt ==
  /\ pc = "running"
  /\ [queue |-> queue, stack |-> stack, pq |-> pq, visited |-> visited,
      cost_so_far |-> cost_so_far, forward_queue |-> forward_queue,
      forward_visited |-> forward_visited, backward_queue |-> backward_queue,
      backward_visited |-> backward_visited, frames |-> frames, call |-> call,
      depth |-> depth] = EnterLocals(algo)

\* C7: whenever the spawner produces a new obstacle at a step of a search in
\* progress, the attempt is aborted and the search restarts from its initial
\* state (frontier holding only the start, nothing explored).
C7_RestartOnObstacle ==
  [][(pc = "running" /\ dynamic_obstacles' # dynamic_obstacles)
       => AtStartOfAttempt']_vars

\* number of search() calls made so far on the strategy object
calls_made == MaxCalls - calls_left

\* C8: on a static grid whose target is reachable, a DFS run terminates with
\* found = true.  Termination: while the run is in progress a step can always
\* be taken, every step either returns or expands one more node, and the
\* number of expanded nodes never exceeds the number of cells for each call
\* made; when the run has returned, found is true.
C8_DFSComplete ==
  /\ []((pc = "done" /\ algo = "DFS" /\ Reachable) => found)
  /\ []((pc = "running" /\ algo = "DFS" /\ Reachable) =>
          (ENABLED DFS_search
             /\ nodes_expanded <= calls_made * Cardinality(Cells(size))))
  /\ [][(pc = "running" /\ algo = "DFS" /\ Reachable) =>
          (pc' = "done" \/ nodes_expanded' = nodes_expanded + 1)]_vars

\* DFS returned a path longer than the shortest one on a grid with walls
C8_Witness ==
  /\ pc = "done"
  /\ algo = "DFS"
  /\ found
  /\ Reachable
  /\ static_walls # {}
  /\ Len(path) - 1 > ShortestSteps

\* C9: on a static grid whose target is reachable, IDDFS returns found = true.
C9_IDDFSComplete ==
  (pc = "done" /\ algo = "IDDFS" /\ Reachable) => found

\* every step of a run returns, expands one more node, moves IDDFS to its
\* next depth limit, or discards one queued UCS entry
RunProgress ==
  \/ pc' = "done"
  \/ nodes_expanded' = nodes_expanded + 1
  \/ /\ nodes_expanded' = nodes_expanded
     /\ depth' = depth + 1
  \/ /\ nodes_expanded' = nodes_expanded
     /\ depth' = depth
     /\ Cardinality(pq') < Cardinality(pq)

RunBounded ==
  /\ depth < max_depth
  /\ nodes_expanded <= ((calls_made - 1) * max_depth + depth + 1)
                          * (Cardinality(Cells(size)) + 1)

\* the start and the target are set and the target cannot be reached from the
\* start by king moves over free cells
NotReachable ==
  /\ start # None
  /\ target # None
  /\ ~Reachable

\* C10: on a static grid whose target is not reachable from the start, a run
\* of any of the six strategies terminates with found = false.  Termination:
\* while the run is in progress every step makes progress in a bounded
\* measure; when the run has returned, found is false.
C10_UnreachableFails ==
  /\ []((pc = "done" /\ NotReachable) => ~found)
  /\ []((pc = "running" /\ NotReachable) => RunBounded)
  /\ [][(pc = "running" /\ NotReachable) => RunProgress]_vars

\* C11: a DLS run with limit L that returns found = true returns a path of at
\* most L steps, and on a static grid whose shortest start-to-target path has
\* more than L steps it returns found = false although a path exists.
C11_DLSWithinLimit ==
  (pc = "done" /\ algo = "DLS") =>
     /\ (found => Len(path) - 1 <= limit)
     /\ ((Reachable /\ ShortestSteps > limit) => ~found)

\* DLS with the small limit gave up on a target that lies further away
C11_Witness ==
  /\ pc = "done"
  /\ algo = "DLS"
  /\ limit = SmallLimit
  /\ Reachable
  /\ ShortestSteps > limit
  /\ ~found
  /\ nodes_expanded > 1

\* C12: on a static grid the number of nodes a DFS run or a DLS run has
\* expanded when it ends, found or not, is at most the number of free cells
\* (in bounds, not a wall).
C12_ExpandedAtMostFree ==
  (pc = "done" /\ algo \in {"DFS", "DLS"}) => nodes_expanded <= Cardinality(Free)

\* a UCS run to completion on the current grid with ties between queued
\* entries of equal cost broken by insertion sequence: entries is the queue
\* in insertion order, and the first entry of least cost is taken
RECURSIVE UCSByInsertion(_, _, _, _)
UCSByInsertion(entries, seen, costs, n) ==
  IF entries = << >>
  THEN [found |-> FALSE, path |-> << >>, nodes_expanded |-> n]
  ELSE LET i == CHOOSE j \in 1..Len(entries) :
                  \A k \in 1..Len(entries) :
                     /\ entries[j].cost <= entries[k].cost
                     /\ (k < j => entries[k].cost # entries[j].cost)
           current == entries[i]
           current_pos == get_position(current)
           rest == SubSeq(entries, 1, i - 1) \o SubSeq(entries, i + 1, Len(entries))
           pushed == Relaxed(get_neighbors(current, dynamic_obstacles),
                             seen \cup {current_pos}, costs, current)
       IN IF current_pos \in seen
          THEN UCSByInsertion(rest, seen, costs, n)
          ELSE IF current_pos = target
               THEN [found |-> TRUE, path |-> reconstruct_path(current),
                     nodes_expanded |-> n + 1]
               ELSE UCSByInsertion(
                      rest \o pushed, seen \cup {current_pos},
                      [q \in DOMAIN costs \cup Positions(pushed) |->
                         IF q \in Positions(pushed) THEN NodeAt(pushed, q).cost
                         ELSE costs[q]],
                      n + 1)

\* C13: on a static grid with no dynamic obstacles the outcome of a run (found
\* flag, path, nodes_expanded) is a function of the grid alone.  BFS, DFS,
\* DLS, IDDFS and Bidirectional draw no choice in any step; for UCS the
\* outcome is the one obtained when ties between queued entries of equal
\* cost are broken by insertion sequence.
C13_Deterministic ==
  (pc = "done" /\ algo = "UCS" /\ ~Unset) =>
     [found |-> found, path |-> path, nodes_expanded |-> nodes_expanded]
       = UCSByInsertion(<<start_node>>, {}, [p \in {start} |-> 0], 0)

\* the run ends on the goal: the returned path leads to the target
GoalFound ==
  /\ path # << >>
  /\ path[Len(path)] = target

\* nothing is left to expand: the frontier is empty; for DLS no active call
\* has an unvisited neighbour left and the current call is at the depth
\* limit or has none either; for IDDFS this holds at the last depth limit
Exhausted ==
  CASE algo = "BFS" -> queue = << >>
    [] algo = "DFS" -> stack = << >>
    [] algo = "UCS" -> pq = {}
    [] algo = "Bidirectional" -> forward_queue = << >> /\ backward_queue = << >>
    [] algo = "DLS" ->
         /\ \A i \in 1..Len(frames) : Positions(frames[i].nbrs) \subseteq visited
         /\ \/ at_depth_limit(call[1].depth)
            \/ Positions(get_neighbors(call[1].node, dynamic_obstacles)) \subseteq visited
    [] algo = "IDDFS" ->
         /\ depth + 1 = max_depth
         /\ \/ stack = << >>
            \/ /\ Len(stack) = 1
               /\ \/ stack[1][2] >= depth
                  \/ Positions(get_neighbors(stack[1][1], dynamic_obstacles)) \subseteq visited

\* C14: with no dynamic obstacles and no cancellation every run of the six
\* strategies terminates: while it is in progress a step can be taken, each
\* step makes progress in a bounded measure, and the step that ends it either
\* returns found = true on reaching the goal or returns found = false with
\* the frontier exhausted (for DLS and IDDFS: the depth bound exhausted).
C14_Terminates ==
  /\ [](pc = "running" => (ENABLED Search /\ RunBounded))
  /\ [][pc = "running" => RunProgress]_vars
  /\ [][(pc = "running" /\ pc' = "done") =>
          IF found' THEN GoalFound' ELSE Exhausted]_vars

\* IDDFS tried every depth limit on a well-formed grid and gave up
C14_Witness ==
  /\ pc = "done"
  /\ algo = "IDDFS"
  /\ ~found
  /\ WellFormed
  /\ current_depth_limit = max_depth - 1
  /\ nodes_expanded > Cardinality(Cells(size))

\* C15, as stated: a run whose stop flag was set (is_running = false, which
\* the display refresh may do during any step) ends with found = false.
C15_StopMeansNotFound ==
  (pc = "done" /\ ~is_running) => ~found

\* C15, amended: the stop flag is polled at the head of each step.  When a
\* step begins with the flag set, the run expands nothing more and ends with
\* found = false: that step can be taken, returns found = false and leaves
\* nodes_expanded as it was.  (A step during which the flag is set still
\* completes, and returns found = true if it reached the target.)
C15_Cancellation ==
  /\ []((pc = "running" /\ ~is_running) => ENABLED Search)
  /\ [][(pc = "running" /\ ~is_running) =>
          /\ pc' = "done"
          /\ ~found'
          /\ nodes_expanded' = nodes_expanded]_vars

\* a run that was stopped after some expansions, with cells still queued
C15_Witness ==
  /\ pc = "done"
  /\ ~is_running
  /\ ~found
  /\ nodes_expanded >= 2
  /\ frontier_nodes # {}
  /\ WellFormed

\* C16: after any sequence of set_start, set_target, add_wall and spawner
\* calls, the start and the target are in neither obstacle set, and every
\* cell held as start, target, wall or dynamic obstacle lies in the grid.
C16_GridInvariant ==
  /\ start \notin static_walls \cup dynamic_obstacles
  /\ target \notin static_walls \cup dynamic_obstacles
  /\ (start # None => start \in Cells(size))
  /\ (target # None => target \in Cells(size))
  /\ static_walls \subseteq Cells(size)
  /\ dynamic_obstacles \subseteq Cells(size)

\* C17: a search started on a grid whose start or target is unset, out of
\* bounds or on a wall ends with found = false without any expansion:
\* nodes_expanded stays 0 and the path stays empty.
C17_InvalidConfiguration ==
  (pc = "done" /\ ~WellFormed) =>
     /\ ~found
     /\ nodes_expanded = 0
     /\ path = << >>

\* C18: on a static grid on which a path of at most L steps leads from the
\* start to the target, a DLS run with limit L that is not cancelled returns
\* found = true.
C18_DLSCompleteWithinLimit ==
  (pc = "done" /\ algo = "DLS" /\ is_running /\ Reachable /\ ShortestSteps <= limit)
     => found

\* a step that begins an attempt: search() is entered, or the search in
\* progress restarts after an obstacle landed on the remembered path
BeginsAttempt ==
  /\ pc' = "running"
  /\ AtStartOfAttempt'
  /\ \/ pc # "running"
     \/ dynamic_obstacles' # dynamic_obstacles

\* C19: every attempt starts from a fresh search state: when search() is
\* entered or restarts, nodes_expanded is 0 and path, path_cost, frontier and
\* explored are empty; a run that ends with found = false carries an empty
\* path and cost 0.
C19_FreshState ==
  /\ [][BeginsAttempt =>
          /\ nodes_expanded' = 0
          /\ path' = << >>
          /\ path_cost' = 0
          /\ frontier_nodes' = {}
          /\ explored_nodes' = {}]_vars
  /\ []((pc = "done" /\ ~found) => (path = << >> /\ path_cost = 0))

\* every step of a run under the spawner makes progress as on a static grid,
\* or adds an obstacle to the grid
ReplanProgress ==
  \/ RunProgress
  \/ /\ dynamic_obstacles \subseteq dynamic_obstacles'
     /\ dynamic_obstacles' # dynamic_obstacles

\* the obstacles lie on cells of the grid that hold no wall, start or target;
\* every attempt (one per call, one more per restart) expands each cell at
\* most once per depth limit
ReplanBounded ==
  /\ depth < max_depth
  /\ dynamic_obstacles \subseteq Cells(size) \ (static_walls \cup {start, target})
  /\ nodes_expanded <=
       ((calls_made + Cardinality(dynamic_obstacles) - 1) * max_depth + depth + 1)
         * (Cardinality(Cells(size)) + 1)

\* C20: whatever the spawner does, a step at every iteration included, every
\* run of the six strategies terminates: a step can always be taken, the
\* obstacle set only grows and stays within the free cells of the grid, and
\* every step returns, makes progress within the attempt, or adds an obstacle,
\* so the restarts of one run are at most as many as the cells.
C20_TerminatesUnderSpawner ==
  /\ [](pc = "running" => (ENABLED Search /\ ReplanBounded))
  /\ [][dynamic_obstacles \subseteq dynamic_obstacles']_vars
  /\ [][pc = "running" => ReplanProgress]_vars

\* a BFS or DFS run that ended after more expansions than the calls made could
\* account for without a restart, with two obstacles spawned
C20_Witness ==
  /\ pc = "done"
  /\ algo \in {"BFS", "DFS"}
  /\ nodes_expanded > calls_made * (Cardinality(Cells(size)) + 1)
  /\ Cardinality(dynamic_obstacles) >= 2

\* the eight moves in the order Up, Right, Down, Down-Right, Left, Top-Left,
\* Top-Right, Bottom-Left
MoveOrder ==
  << <<-1, 0>>, <<0, 1>>, <<1, 0>>, <<1, 1>>,
     <<0, -1>>, <<-1, -1>>, <<-1, 1>>, <<1, -1>> >>

Moved(p, d) == <<p[1] + d[1], p[2] + d[2]>>

\* both cells orthogonally adjacent to the diagonal step from p to q are blocked
CornerCut(p, q) ==
  /\ p[1] # q[1]
  /\ p[2] # q[2]
  /\ <<p[1], q[2]>> \in static_walls \cup dynamic_obstacles
  /\ <<q[1], p[2]>> \in static_walls \cup dynamic_obstacles

C22_GridFrame ==
  [][pc = "running" =>
       /\ size' = size
       /\ start' = start
       /\ target' = target
       /\ static_walls' = static_walls
       /\ IF spawns_left' = spawns_left
          THEN dynamic_obstacles' = dynamic_obstacles
          ELSE /\ spawns_left' = spawns_left - 1
               /\ \E q \in Cells(size) \ (static_walls \cup dynamic_obstacles
                                              \cup {start, target}) :
                    dynamic_obstacles' = dynamic_obstacles \cup {q}]_vars

\* a run in progress on a grid with a wall, after two spawns
C22_Witness ==
  /\ pc = "running"
  /\ static_walls # {}
  /\ Cardinality(dynamic_obstacles) = 2
  /\ spawns_left = MaxSpawns - 2
  /\ nodes_expanded > 0

\* the frontier of BFS (its queue) or of DFS (its stack)
Frontier == IF algo = "BFS" THEN queue ELSE stack

\* C23: in BFS and in DFS, at every step of an attempt no two entries of the
\* frontier (queue or stack) have the same position, and every position in
\* the frontier is in the visited set.
C23_FrontierDistinctVisited ==
  (pc = "running" /\ algo \in {"BFS", "DFS"}) =>
     /\ \A i, j \in 1..Len(Frontier) :
          i # j => get_position(Frontier[i]) # get_position(Frontier[j])
     /\ Positions(Frontier) \subseteq visited

\* a DFS attempt under way on a grid with walls, four nodes on its stack
C23_Witness ==
  /\ pc = "running"
  /\ algo = "DFS"
  /\ static_walls # {}
  /\ nodes_expanded >= 3
  /\ Len(stack) >= 4

\* the positions an attempt is done with: discovered and no longer awaiting
\* expansion (for Bidirectional, in the forward tree)
Expanded ==
  CASE algo = "BFS" -> visited \ Positions(queue)
    [] algo = "DFS" -> visited \ Positions(stack)
    [] algo = "UCS" -> visited
    [] algo = "DLS" -> visited \ {get_position(call[i].node) : i \in 1..Len(call)}
    [] algo = "IDDFS" -> visited \ {get_position(stack[i][1]) : i \in 1..Len(stack)}
    [] algo = "Bidirectional" -> DOMAIN forward_visited \ Positions(forward_queue)
    [] OTHER -> {}

\* the same for the backward tree of Bidirectional
ExpandedBackward == DOMAIN backward_visited \ Positions(backward_queue)

\* the set grows by exactly one position, which was not in it
OneMore(old, new) ==
  /\ old \subseteq new
  /\ Cardinality(new \ old) = 1

\* C24: within one attempt no position is expanded more than once: every
\* expansion that leaves the attempt running adds exactly one position to
\* those already expanded, a position that was not among them (per depth-limit
\* iteration in IDDFS, per tree in Bidirectional), and an expanded position
\* never returns to the frontier.
C24_ExpandedOnce ==
  [][(pc = "running" /\ pc' = "running" /\ nodes_expanded' = nodes_expanded + 1) =>
       IF algo = "Bidirectional"
       THEN /\ IF forward_queue # << >>
               THEN OneMore(Expanded, Expanded')
               ELSE Expanded' = Expanded
            /\ IF backward_queue # << >>
               THEN OneMore(ExpandedBackward, ExpandedBackward')
               ELSE ExpandedBackward' = ExpandedBackward
       ELSE OneMore(Expanded, Expanded')]_vars

\* a UCS attempt that has dropped a stale entry: more pops than expansions
C24_Witness ==
  /\ pc = "running"
  /\ algo = "UCS"
  /\ Cardinality(visited) >= 3
  /\ \E n \in pq : get_position(n) \in visited

\* C25: in UCS, once a position has been popped and marked explored, its
\* cost_so_far never changes and no new entry (hence no new parent) is made
\* for it; a later pop of an entry for it is discarded without expansion; the
\* costs of the positions expanded are non-decreasing over the attempt.
C25_UCSFinalized ==
  /\ [][(pc = "running" /\ algo = "UCS" /\ pc' = "running" /\ ~BeginsAttempt) =>
          /\ visited \subseteq visited'
          /\ \A p \in visited : cost_so_far'[p] = cost_so_far[p]
          /\ \A n \in pq' \ pq : get_position(n) \notin visited'
          /\ \E n \in pq :
               /\ pq \ pq' = {n}
               /\ IF get_position(n) \in visited
                  THEN /\ nodes_expanded' = nodes_expanded
                       /\ visited' = visited
                       /\ cost_so_far' = cost_so_far
                       /\ pq' = pq \ {n}
                       /\ explored_nodes' = explored_nodes
                  ELSE /\ nodes_expanded' = nodes_expanded + 1
                       /\ visited' = visited \cup {get_position(n)}
                       /\ cost_so_far[get_position(n)] = n.cost
                       /\ \A p \in visited : cost_so_far[p] <= n.cost]_vars
  /\ [][(pc = "running" /\ algo = "UCS" /\ pc' = "done" /\ found') =>
          \A p \in visited : cost_so_far[p] <= path_cost']_vars

\* a UCS attempt about to pop a stale entry: the cheapest entry of the queue
\* is for a position already explored at a lower cost
C25_Witness ==
  /\ pc = "running"
  /\ algo = "UCS"
  /\ \E n \in pq :
       /\ PopChoices(pq) = {n}
       /\ get_position(n) \in visited
       /\ cost_so_far[get_position(n)] < n.cost

\* the moves of MoveOrder, in order, that lead from p to a cell that is valid
\* under the obstacles dyn and not in seen
OpenMoves(p, seen, dyn) ==
  SelectSeq(MoveOrder,
            LAMBDA d : Moved(p, d) \in (Cells(size) \ (static_walls \cup dyn)) \ seen)

\* C26: DFS follows the fixed neighbour order: a DFS expansion takes the node
\* on top of the stack and leaves the rest of the stack in place, and when the
\* expanded node has an unvisited valid neighbour, the node on top of the
\* stack afterwards, the next one expanded, is its first unvisited neighbour
\* in the order Up, Right, Down, Down-Right, Left, Top-Left, Top-Right,
\* Bottom-Left.
C26_DFSOrder ==
  [][(pc = "running" /\ algo = "DFS" /\ pc' = "running"
        /\ nodes_expanded' = nodes_expanded + 1) =>
       LET current == stack[Len(stack)]
           current_pos == get_position(current)
           open == OpenMoves(current_pos, visited, dynamic_obstacles')
       IN /\ Len(stack') >= Len(stack) - 1
          /\ SubSeq(stack', 1, Len(stack) - 1) = SubSeq(stack, 1, Len(stack) - 1)
          /\ open # << >> =>
               /\ Len(stack') = Len(stack) - 1 + Len(open)
               /\ get_position(stack'[Len(stack')]) = Moved(current_pos, open[1])
               /\ stack'[Len(stack')].parent = <<current>>]_vars

\* a DFS attempt whose next node to expand was reached by a move that is not
\* the first of the order: an earlier move of its parent led to a wall and
\* another to a cell visited before
C26_Witness ==
  /\ pc = "running"
  /\ algo = "DFS"
  /\ nodes_expanded >= 3
  /\ stack # << >>
  /\ stack[Len(stack)].parent # None
  /\ LET top == stack[Len(stack)]
         par == get_position(top.parent[1])
     IN \E k \in 1..Len(MoveOrder) :
          /\ Moved(par, MoveOrder[k]) = get_position(top)
          /\ \E i \in 1..(k - 1) : Moved(par, MoveOrder[i]) \in static_walls
          /\ \E j \in 1..(k - 1) : Moved(par, MoveOrder[j]) \in visited \ static_walls

\* positions the running attempt has discovered, in either tree
Discovered ==
  CASE algo = "UCS" -> visited \cup {get_position(n) : n \in pq}
    [] algo = "Bidirectional" -> DOMAIN forward_visited \cup DOMAIN backward_visited
    [] OTHER -> visited

\* positions discovered and still pending expansion
Pending ==
  Discovered \ (Expanded \cup (IF algo = "Bidirectional" THEN ExpandedBackward ELSE {}))

\* C27: at every observer callback the frontier snapshot is exactly the set
\* of positions discovered and still pending expansion, the explored snapshot
\* is exactly the set of positions already expanded (with or without the one
\* being expanded), and the two snapshots are disjoint.  The callback of a
\* step is the one that follows the increment of nodes_expanded; the position
\* being expanded is the one the step adds to Expanded, and the neighbours the
\* step discovers after the callback are not yet pending at the callback.
C27_SnapshotsExact ==
  [][(pc = "running" /\ nodes_expanded' = nodes_expanded + 1) =>
       /\ frontier_nodes' \cap explored_nodes' = {}
       /\ pc' = "running" =>
            IF algo = "Bidirectional"
            THEN /\ frontier_nodes' = Pending'
                 /\ explored_nodes' = Expanded' \cup ExpandedBackward'
            ELSE /\ frontier_nodes' = Pending \ (Expanded' \ Expanded)
                 /\ Expanded \subseteq explored_nodes'
                 /\ explored_nodes' \subseteq Expanded']_vars

\* the obstacle spawned in this step lies on the remembered path, so the step
\* replans instead of expanding
Replans == \E q \in dynamic_obstacles' \ dynamic_obstacles : q \in SeqToSet(path)

\* the step processes one frontier node of BFS, DFS, UCS, DLS or IDDFS: the
\* loop is entered on a non-empty frontier (for UCS, on an entry that is not
\* discarded; for DLS, by the call itself) and does not replan
ProcessesNode ==
  /\ is_running
  /\ ~Replans
  /\ CASE algo = "BFS" -> queue # << >>
       [] algo \in {"DFS", "IDDFS"} -> stack # << >>
       [] algo = "UCS" -> \/ pc' = "done" /\ found'
                          \/ pc' = "running" /\ visited' # visited
       [] algo = "DLS" -> TRUE
       [] OTHER -> FALSE

\* the forward dequeue of a Bidirectional iteration finds its position in the
\* backward tree
ForwardMeets ==
  /\ forward_queue # << >>
  /\ get_position(Head(forward_queue)) \in DOMAIN backward_visited

\* the dequeues of one iteration of Bidirectional: one forward if the forward
\* queue holds a node, one backward if the trees did not meet on the forward
\* one and the backward queue holds a node
Dequeues ==
  IF is_running /\ ~Replans
  THEN (IF forward_queue # << >> THEN 1 ELSE 0)
         + (IF ~ForwardMeets /\ backward_queue # << >> THEN 1 ELSE 0)
  ELSE 0

\* the five single-frontier strategies count one per node processed
SingleFrontierCount ==
  [][(pc = "running" /\ algo # "Bidirectional") =>
       nodes_expanded' = nodes_expanded + (IF ProcessesNode THEN 1 ELSE 0)]_vars

\* C28: nodes_expanded counts the expansions of a run: every step adds to it
\* the number of frontier nodes it processes; for Bidirectional every forward
\* and every backward dequeue of an iteration, the one on which the trees
\* meet included.
C28_CountsExpansions ==
  /\ SingleFrontierCount
  /\ [][(pc = "running" /\ algo = "Bidirectional") =>
          nodes_expanded' = nodes_expanded + Dequeues]_vars

\* the step enters the body of the search loop (for DLS, the call gets past
\* its is_running test), where handle_dynamic_obstacle calls the spawner once
SpawnerCalled ==
  /\ is_running
  /\ CASE algo = "BFS" -> queue # << >>
       [] algo \in {"DFS", "IDDFS"} -> stack # << >>
       [] algo = "UCS" -> pq # {}
       [] algo = "DLS" -> TRUE
       [] algo = "Bidirectional" -> forward_queue # << >> \/ backward_queue # << >>
       [] OTHER -> FALSE

\* the frontier nodes a step processes
Expansions ==
  IF algo = "Bidirectional" THEN Dequeues ELSE IF ProcessesNode THEN 1 ELSE 0

\* C29: the spawner is invoked exactly once per expansion: a step that calls
\* the spawner performs exactly one expansion after it, and a step that does
\* not call it performs none, so exactly one spawner call lies between two
\* consecutive expansions of a run.
C29_SpawnerOncePerExpansion ==
  [][pc = "running" => Expansions = (IF SpawnerCalled THEN 1 ELSE 0)]_vars

\* the nodes the running attempt holds in its forward (or only) tree
TreeNodes ==
  CASE algo = "BFS" -> SeqToSet(queue)
    [] algo = "DFS" -> SeqToSet(stack)
    [] algo = "UCS" -> pq
    [] algo = "DLS" -> {call[i].node : i \in 1..Len(call)}
                         \cup {frames[i].node : i \in 1..Len(frames)}
    [] algo = "IDDFS" -> {stack[i][1] : i \in 1..Len(stack)}
    [] algo = "Bidirectional" ->
         SeqToSet(forward_queue) \cup {forward_visited[q] : q \in DOMAIN forward_visited}
    [] OTHER -> {}

\* the nodes of the backward tree of Bidirectional
BackwardTreeNodes ==
  SeqToSet(backward_queue) \cup {backward_visited[q] : q \in DOMAIN backward_visited}

\* following parent links from node: the chain ends in root, moves by one
\* cell at a time and holds no position twice
RootedChain(node, root) ==
  LET chain == ParentChain(node)
  IN /\ chain[Len(chain)] = root
     /\ \A i, j \in 1..Len(chain) : chain[i] = chain[j] => i = j
     /\ \A i \in 1..(Len(chain) - 1) :
          \E d \in SeqToSet(MoveOrder) : Moved(chain[i + 1], d) = chain[i]

\* C30: parent links form rooted trees at every step of every strategy: from
\* every node an attempt holds, the parent links lead to the start (to the
\* target in the backward tree of Bidirectional) without a position twice.
C30_RootedTrees ==
  pc = "running" =>
    /\ \A n \in TreeNodes : RootedChain(n, start)
    /\ \A n \in BackwardTreeNodes : RootedChain(n, target)

\* a Bidirectional attempt on a grid with a wall whose two trees both hold a
\* node two links away from its root
C30_Witness ==
  /\ pc = "running"
  /\ algo = "Bidirectional"
  /\ static_walls # {}
  /\ \E n \in TreeNodes : Len(ParentChain(n)) >= 3
  /\ \E n \in BackwardTreeNodes : Len(ParentChain(n)) >= 3

====
